---- MODULE Spec2Model ----
(***************************************************************************)
(* Client lifecycle of the WireGuard manager (src/wireguard.py) over its   *)
(* three stores: the server config document (wg0.conf), the client         *)
(* registry (table wireguard_clients, src/sqlite.py) and the per-client    *)
(* config files.                                                           *)
(*                                                                         *)
(* Text is modelled at the level the code inspects it.  A client name is a *)
(* sequence of characters.  The config document is the sequence of its     *)
(* lines (every line ends with a line feed); a line is a tuple whose first *)
(* element is its kind:                                                    *)
(*   <<"iface">>          [Interface]                                      *)
(*   <<"srvaddr">>        Address = <base4>.1/24,<base6>1/64               *)
(*   <<"blank">>          the empty line                                   *)
(*   <<"hdr", m>>         ### Client <m>                                   *)
(*   <<"txt", s>>         a line holding only the characters s             *)
(*   <<"peer">>           [Peer]                                           *)
(*   <<"pub", k>>         PublicKey = <k>                                  *)
(*   <<"psk", k>>         PresharedKey = <k>                               *)
(*   <<"ips", i, j>>      AllowedIPs = <base4>.<i>/32,<base6><j>/128       *)
(* An address is its host index after the configured base (0: the empty    *)
(* string).  A key is an opaque token <<kind, g>>, g the number of the     *)
(* tool invocation that produced it.                                       *)
(***************************************************************************)
EXTENDS Integers, Sequences, FiniteSets, TLC

VARIABLES doc, db, files, nextKey, now, last, tasks

vars == <<doc, db, files, nextKey, now, last, tasks>>

stores == <<doc, db, files>>

----------------------------------------------------------------------------
(* Bounds of the model *)

\* tool invocations that produce fresh key material (wg genkey, wg genpsk)
MaxKeys == 6

\* the registry clock (seconds) stops the model when it reaches this value
MaxTime == 3

\* the allocator's range is MinHost..MaxHost; the source uses 254
MaxHost == 3

----------------------------------------------------------------------------
(* Characters and names *)

LF == "\n"

Lower == {"a","b","c","d","e","f","g","h","i","j","k","l","m",
          "n","o","p","q","r","s","t","u","v","w","x","y","z"}

Upper == {"A","B","C","D","E","F","G","H","I","J","K","L","M",
          "N","O","P","Q","R","S","T","U","V","W","X","Y","Z"}

Digit == {"0","1","2","3","4","5","6","7","8","9"}

\* the character class [a-zA-Z0-9_-]
NameChars == Lower \cup Upper \cup Digit \cup {"_", "-"}

MaxNameLen == 15

nT == <<"t">>

nTB == <<"t", "b">>

nTLF == <<"t", LF>>

nEmpty == <<>>

nBad == <<"t", "!">>

nLong == [i \in 1..(MaxNameLen + 1) |-> "t"]

\* the name arguments the calls are tried with
Names == {nT, nTB, nTLF, nEmpty, nBad, nLong}

\* the caller ids AddClient is tried with
Callers == {7}

\* "### Client "
HdrPrefix == <<"#", "#", "#", " ", "C", "l", "i", "e", "n", "t", " ">>

\* "### Client"
HdrMark == <<"#", "#", "#", " ", "C", "l", "i", "e", "n", "t">>

\* Python's  a in b  on strings
IsSub(a, b) ==
    \E o \in 0..(Len(b) - Len(a)) : SubSeq(b, o + 1, o + Len(a)) = a

\* Python's  b.startswith(a)
StartsWith(b, a) == Len(a) <= Len(b) /\ SubSeq(b, 1, Len(a)) = a

\* re.match(r"^[a-zA-Z0-9_-]+$", name): "$" also matches before one
\* line feed that ends the string
RegexMatch(name) ==
    LET body == IF Len(name) > 0 /\ name[Len(name)] = LF
                THEN SubSeq(name, 1, Len(name) - 1)
                ELSE name
    IN  Len(body) >= 1 /\ \A i \in 1..Len(body) : body[i] \in NameChars

\* the name check of add_client and rename_client
ValidName(name) == RegexMatch(name) /\ ~(Len(name) > MaxNameLen)

----------------------------------------------------------------------------
(* Keys *)

\* the empty string where a key is expected
NoKey == <<"", 0>>

\* Python's None where a key is expected
NoneKey == <<"None", 0>>

\* wg genkey, the g-th invocation: random, so never a value seen before
GenPrivate(g) == <<"priv", g>>

\* wg pubkey: the public key that belongs to a private key
PubOf(priv) == <<"pub", priv[2]>>

\* wg genpsk, the g-th invocation
GenPreshared(g) == <<"psk", g>>

----------------------------------------------------------------------------
(* The config document as text *)

MinOf(S) == CHOOSE x \in S : \A y \in S : x <= y

Blank == <<"blank">>

IsBlank(line) == line[1] = "blank"

\* the characters of a line as readlines() returns it; what is not a
\* header is text without "#" and without name characters standing alone,
\* so a token stands for it
LineText(line) ==
    CASE line[1] = "hdr"     -> HdrPrefix \o line[2] \o <<LF>>
      [] line[1] = "txt"     -> line[2] \o <<LF>>
      [] line[1] = "blank"   -> <<LF>>
      [] line[1] = "iface"   -> <<"[Interface]", LF>>
      [] line[1] = "srvaddr" -> <<"Address = <server addresses>", LF>>
      [] line[1] = "peer"    -> <<"[Peer]", LF>>
      [] line[1] = "pub"     -> <<"PublicKey = <key>", LF>>
      [] line[1] = "psk"     -> <<"PresharedKey = <key>", LF>>
      [] line[1] = "ips"     -> <<"AllowedIPs = <addresses>", LF>>

\* the text  "### Client {name}"  the code searches for
Needle(name) == HdrPrefix \o name

\* the pieces of s between line feeds (s ends with a line feed)
RECURSIVE SplitLF(_, _)
SplitLF(s, cur) ==
    IF s = <<>> THEN <<>>
    ELSE IF Head(s) = LF THEN <<cur>> \o SplitLF(Tail(s), <<>>)
    ELSE SplitLF(Tail(s), Append(cur, Head(s)))

\* the lines that the text  "### Client {name}\n"  makes in the file
HeaderLines(name) ==
    LET pieces == SplitLF(name \o <<LF>>, <<>>)
    IN  [i \in 1..Len(pieces) |->
            IF i = 1 THEN <<"hdr", pieces[1]>>
            ELSE IF pieces[i] = <<>> THEN Blank
            ELSE <<"txt", pieces[i]>>]

\* the f-string client_config of _update_server_config, as lines
RenderSection(client) ==
    <<Blank>> \o HeaderLines(client.name)
      \o << <<"peer">>,
            <<"pub", client.public_key>>,
            <<"psk", client.preshared_key>>,
            <<"ips", client.ipv4, client.ipv6>> >>

\* the loop of _update_server_config: <<start, end>>, 0 for None
RECURSIVE FindSection(_, _, _, _)
FindSection(lines, name, i, start) ==
    IF i > Len(lines) THEN <<start, 0>>
    ELSE IF IsSub(Needle(name), LineText(lines[i]))
         THEN FindSection(lines, name, i + 1, i)
    ELSE IF start # 0 /\ IsBlank(lines[i]) /\ i > start
         THEN <<start, i>>
    ELSE FindSection(lines, name, i + 1, start)

\* _update_server_config(client, remove): the lines written back
UpdateServerConfig(lines, client, remove) ==
    LET se     == FindSection(lines, client.name, 1, 0)
        start  == se[1]
        end    == se[2]
        before == SubSeq(lines, 1, start - 1)
        after  == IF end # 0 THEN SubSeq(lines, end + 1, Len(lines))
                  ELSE <<>>
    IN  IF remove
        THEN IF start # 0 THEN before \o after ELSE lines
        ELSE IF start # 0
             THEN before \o RenderSection(client) \o after
             ELSE lines \o RenderSection(client)

\* client_exists(name): "### Client {name}" in content.  The needle has
\* no line feed before its last character, so it lies within one line.
ClientExists(lines, name) ==
    \E i \in DOMAIN lines : IsSub(Needle(name), LineText(lines[i]))

\* _get_clients_from_config: the names of the header lines, in the order
\* of the document, a name once for each of its headers
GetClientsFromConfig(lines) ==
    LET IsHeader(line) == line[1] = "hdr"
        headers == SelectSeq(lines, IsHeader)
    IN  [i \in DOMAIN headers |-> headers[i][2]]

\* the names of the header lines: _get_clients_from_config / list_clients
ConfigClients(lines) ==
    {lines[i][2] : i \in {j \in DOMAIN lines : lines[j][1] = "hdr"}}

\* the host indexes re.finditer finds after the IPv4 base
UsedIPv4(lines) ==
    {1 : i \in {j \in DOMAIN lines : lines[j][1] = "srvaddr"}}
      \cup {lines[i][2] :
               i \in {j \in DOMAIN lines :
                         lines[j][1] = "ips" /\ lines[j][2] # 0}}

UsedIPv6(lines) ==
    {1 : i \in {j \in DOMAIN lines : lines[j][1] = "srvaddr"}}
      \cup {lines[i][3] :
               i \in {j \in DOMAIN lines :
                         lines[j][1] = "ips" /\ lines[j][3] # 0}}

MinHost == 2

\* _get_available_ipv4 counting on from the highest index in use
GetAvailableIPv4AfterLast(lines) ==
    LET used == UsedIPv4(lines) \cup {MinHost - 1}
        top  == CHOOSE i \in used : \A j \in used : j <= i
    IN  IF top + 1 > MaxHost THEN 0 ELSE top + 1

\* _get_available_ipv4: the first free index of the range, 0 for None
GetAvailableIPv4(lines) ==
    LET free == {i \in MinHost..MaxHost : i \notin UsedIPv4(lines)}
    IN  IF free = {} THEN 0 ELSE MinOf(free)

GetAvailableIPv6(lines) ==
    LET free == {i \in MinHost..MaxHost : i \notin UsedIPv6(lines)}
    IN  IF free = {} THEN 0 ELSE MinOf(free)

\* the first PublicKey line among the nine lines after line i
PubKeyAfter(lines, i) ==
    LET upto == IF i + 9 < Len(lines) THEN i + 9 ELSE Len(lines)
        js   == {j \in (i + 1)..upto : lines[j][1] = "pub"}
    IN  IF js = {} THEN NoneKey ELSE lines[MinOf(js)][2]

\* _get_client_public_key_from_config(name)
GetClientPublicKeyFromConfig(lines, name) ==
    LET hs == {i \in DOMAIN lines :
                  /\ lines[i][1] = "hdr"
                  /\ IsSub(name, HdrPrefix \o lines[i][2])
                  /\ PubKeyAfter(lines, i) # NoneKey}
    IN  IF hs = {} THEN NoneKey ELSE PubKeyAfter(lines, MinOf(hs))

----------------------------------------------------------------------------
(* Registry rows and client files *)

EmptyMap == [x \in {} |-> 0]

Put(f, k, v) == [x \in (DOMAIN f) \cup {k} |-> IF x = k THEN v ELSE f[x]]

Drop(f, k) == [x \in (DOMAIN f) \ {k} |-> f[x]]

\* the empty string where a path is expected
NoPath == <<"", <<>> >>

\* clients_dir / "wg0-client-{name}.conf"
ConfigPath(name) == <<"wg0-client-.conf", name>>

\* the dataclass WireGuardClient
WireGuardClient(name, ipv4, ipv6, public_key, private_key, preshared_key, config_file) ==
    [name |-> name, ipv4 |-> ipv4, ipv6 |-> ipv6,
     public_key |-> public_key, private_key |-> private_key,
     preshared_key |-> preshared_key, config_file |-> config_file]

\* the row INSERT stores for a client; name is the key of db, and ids is
\* the number of rows (each with an id of its own) that carry the name
Row(client, created_at, created_by) ==
    [ids |-> 1,
     ipv4 |-> client.ipv4, ipv6 |-> client.ipv6,
     public_key |-> client.public_key, private_key |-> client.private_key,
     preshared_key |-> client.preshared_key,
     config_file |-> client.config_file,
     created_at |-> created_at, created_by |-> created_by]

\* add_wireguard_client into a table whose name column is not UNIQUE
AddWireguardClientNotUnique(table, client, created_at, created_by) ==
    IF client.name \in DOMAIN table
    THEN [table EXCEPT ![client.name].ids = @ + 1]
    ELSE Put(table, client.name, Row(client, created_at, created_by))

\* add_wireguard_client: name is UNIQUE, a second row is an sqlite3.Error
AddWireguardClient(table, client, created_at, created_by) ==
    IF client.name \in DOMAIN table THEN table
    ELSE Put(table, client.name, Row(client, created_at, created_by))

\* remove_wireguard_client
RemoveWireguardClient(table, name) == Drop(table, name)

\* wireguard_client_exists with its query finding no row
WireguardClientExistsNever(table, name) == FALSE

\* wireguard_client_exists
WireguardClientExists(table, name) == name \in DOMAIN table

\* what _create_client_config writes: the fields of the rendered file that
\* depend on the client, and the file's permission bits
ClientFile(client, mode) ==
    [private_key |-> client.private_key,
     preshared_key |-> client.preshared_key,
     ipv4 |-> client.ipv4, ipv6 |-> client.ipv6, mode |-> mode]

\* _create_client_config up to and including os.chmod
CreateClientConfig(fs, client) ==
    Put(fs, ConfigPath(client.name), ClientFile(client, "0600"))

\* _create_client_config when os.chmod raises: open(..., "w") has created
\* the file with the permissions the process umask gives, or has truncated
\* the file that was there, which keeps its permissions
CreateClientConfigNoChmod(fs, client) ==
    LET path == ConfigPath(client.name)
        mode == IF path \in DOMAIN fs THEN fs[path].mode ELSE "umask"
    IN  Put(fs, path, ClientFile(client, mode))

\* os.path.exists(path) then os.remove(path)
RemoveFile(fs, path) == Drop(fs, path)

\* Python's None where the text of a client file is expected
NoFile ==
    [private_key |-> NoneKey, preshared_key |-> NoneKey,
     ipv4 |-> 0, ipv6 |-> 0, mode |-> "None"]

\* get_client_config(name): what the file holds, or None
GetClientConfig(fs, name) ==
    IF ConfigPath(name) \in DOMAIN fs THEN fs[ConfigPath(name)] ELSE NoFile

\* the order of Python's str comparison on the characters of Names
CodeOrder ==
    <<LF, "!", "-", "0", "1", "2", "3", "4", "5", "6", "7", "8", "9",
      "A", "B", "C", "D", "E", "F", "G", "H", "I", "J", "K", "L", "M",
      "N", "O", "P", "Q", "R", "S", "T", "U", "V", "W", "X", "Y", "Z", "_",
      "a", "b", "c", "d", "e", "f", "g", "h", "i", "j", "k", "l", "m",
      "n", "o", "p", "q", "r", "s", "t", "u", "v", "w", "x", "y", "z">>

Code(c) == CHOOSE i \in DOMAIN CodeOrder : CodeOrder[i] = c

\* a < b on Python strings
LessName(a, b) ==
    \E k \in 0..(IF Len(a) < Len(b) THEN Len(a) ELSE Len(b)) :
        /\ SubSeq(a, 1, k) = SubSeq(b, 1, k)
        /\ \/ k = Len(a) /\ k < Len(b)
           \/ k < Len(a) /\ k < Len(b) /\ Code(a[k + 1]) < Code(b[k + 1])

\* sorted(S)
RECURSIVE Sorted(_)
Sorted(S) ==
    IF S = {} THEN <<>>
    ELSE LET m == CHOOSE x \in S : \A y \in S \ {x} : LessName(x, y)
         IN  <<m>> \o Sorted(S \ {m})

\* list_clients() that leaves out the names only the document has
ListClientsOfRegistry(table, lines) == Sorted(DOMAIN table)

\* list_clients(): sorted(list(set(db_clients + config_clients)))
ListClients(table, lines) == Sorted((DOMAIN table) \cup ConfigClients(lines))

\* what a call leaves in  last
Outcome(op, a, b, res) == [op |-> op, a |-> a, b |-> b, res |-> res]

\* the command handlers that may be pending at once on the event loop
Handlers == {1, 2}

\* a handler with no event to process
IdleTask == [pc |-> "idle", op |-> "none", a |-> <<>>, b |-> <<>>, ipv4 |-> 0, ipv6 |-> 0]

IdleTasks == [h \in Handlers |-> IdleTask]

----------------------------------------------------------------------------
(* Initial state: the manager is constructed over a config document with  *)
(* no peer section and an empty registry, so _sync_existing_clients has   *)
(* nothing to backfill.                                                   *)

InitDoc == << <<"iface">>, <<"srvaddr">> >>

Init ==
    /\ doc = InitDoc
    /\ db = EmptyMap
    /\ files = EmptyMap
    /\ nextKey = 0
    /\ now = 0
    /\ last = Outcome("init", <<>>, <<>>, "none")
    /\ tasks = IdleTasks

----------------------------------------------------------------------------
(* Environment failures.  fault names the step of a call at which the     *)
(* environment fails, "none" when every step works:                       *)
(*   genkey, pubkey, genpsk   the wg invocation exits non-zero            *)
(*   chmod                    os.chmod raises after the file is written   *)
(*   doc                      the server config cannot be opened          *)
(*   dbinsert, dbdelete       sqlite3.Error inside the registry call      *)
(*   syncexit                 wg-quick strip / wg syncconf exits non-zero *)
(*   syncmissing              the sync tool is not installed              *)
(*   syncdenied               the sync tool may not be executed           *)

KeyFaults == {"genkey", "pubkey", "genpsk"}

\* how subprocess.run fails inside _sync_wireguard_safe: CalledProcessError,
\* FileNotFoundError, PermissionError
SyncFaults == {"syncexit", "syncmissing", "syncdenied"}

\* the exceptions _sync_wireguard_safe has an except clause for
SyncCaught == {"syncexit", "syncmissing"}

AddFaults ==
    {"none", "genkey", "pubkey", "genpsk", "chmod", "doc", "dbinsert"}
      \cup SyncFaults

RemoveFaults == {"none", "doc", "dbdelete"} \cup SyncFaults

RenameFaults == {"none", "chmod", "doc", "dbinsert"} \cup SyncFaults

\* _sync_wireguard_safe without its except clauses
SyncWireguardUnsafe(fault) == fault \in SyncFaults

\* _sync_wireguard_safe: TRUE when an exception leaves it
SyncWireguardSafe(fault) == fault \in SyncFaults \ SyncCaught

\* _generate_keys swallowing a failed invocation: the keys it has
GenerateKeysSwallow(g, fault) ==
    [raised |-> FALSE,
     private_key |-> IF fault = "genkey" THEN NoKey ELSE GenPrivate(g + 1),
     public_key |-> IF fault \in {"genkey", "pubkey"} THEN NoKey
                    ELSE PubOf(GenPrivate(g + 1)),
     preshared_key |-> IF fault \in KeyFaults THEN NoKey
                       ELSE GenPreshared(g + 2)]

\* _generate_keys after g earlier key invocations: the triple, or raised
\* when one of its three invocations fails
GenerateKeys(g, fault) ==
    [raised |-> fault \in KeyFaults,
     private_key |-> GenPrivate(g + 1),
     public_key |-> PubOf(GenPrivate(g + 1)),
     preshared_key |-> GenPreshared(g + 2)]

----------------------------------------------------------------------------
(* add_client(name, created_by).  Results:                                *)
(*   invalid, conflict   ValueError raised by the name and existence test *)
(*   exhausted           RuntimeError "No available IP addresses"         *)
(*   toolerror           the exception _generate_keys re-raises           *)
(*   error               RuntimeError raised by the except clause         *)
(*   ok                  the client is returned                           *)
(* A key that is generated and then dropped is never seen again, so only  *)
(* a call that keeps its keys advances nextKey.  The registry row takes   *)
(* the clock's second, and the next row is written a second later; so is  *)
(* the next one after a call that the live sync has aborted.              *)

\* the test  not ipv4 or not ipv6  left out
NoAddressUnchecked(ipv4, ipv6) == FALSE

\* add_client's test  not ipv4 or not ipv6
NoAddress(ipv4, ipv6) == ipv4 = 0 \/ ipv6 = 0

\* add_client from the point at which it holds the two addresses
AddClientAt(name, created_by, fault, ipv4, ipv6) ==
    LET keys == GenerateKeys(nextKey, fault)
        client0 == WireGuardClient(name, ipv4, ipv6, keys.public_key,
                       keys.private_key, keys.preshared_key, NoPath)
        client == [client0 EXCEPT !.config_file = ConfigPath(name)]
        rejected(res) ==
            /\ fault = "none"
            /\ last' = Outcome("add", name, <<>>, res)
            /\ UNCHANGED <<doc, db, files, nextKey, now>>
    IN
    IF ~ValidName(name) THEN rejected("invalid")
    ELSE IF ClientExists(doc, name) \/ WireguardClientExists(db, name)
    THEN rejected("conflict")
    ELSE IF NoAddress(ipv4, ipv6) THEN rejected("exhausted")
    ELSE
      /\ nextKey + 2 <= MaxKeys
      /\ now < MaxTime
      /\ IF keys.raised
         THEN /\ last' = Outcome("add", name, <<>>, "toolerror")
              /\ UNCHANGED <<doc, db, files, nextKey, now>>
         ELSE CASE fault = "chmod" ->
                     \* client.config_file is still "": the except clause
                     \* removes nothing
                     /\ nextKey' = nextKey + 2
                     /\ files' = CreateClientConfigNoChmod(files, client0)
                     /\ last' = Outcome("add", name, <<>>, "error")
                     /\ UNCHANGED <<doc, db, now>>
                [] fault = "doc" ->
                     /\ nextKey' = nextKey + 2
                     /\ files' = RemoveFile(
                                     CreateClientConfig(files, client0),
                                     client.config_file)
                     /\ last' = Outcome("add", name, <<>>, "error")
                     /\ UNCHANGED <<doc, db, now>>
                [] SyncWireguardSafe(fault) ->
                     /\ nextKey' = nextKey + 2
                     /\ files' = RemoveFile(
                                     CreateClientConfig(files, client0),
                                     client.config_file)
                     /\ doc' = UpdateServerConfig(doc, client, FALSE)
                     /\ now' = now + 1
                     /\ last' = Outcome("add", name, <<>>, "error")
                     /\ UNCHANGED db
                [] OTHER ->
                     /\ nextKey' = nextKey + 2
                     /\ files' = CreateClientConfig(files, client0)
                     /\ doc' = UpdateServerConfig(doc, client, FALSE)
                     /\ db' = IF fault = "dbinsert" THEN db
                              ELSE AddWireguardClient(db, client, now,
                                                      created_by)
                     /\ now' = now + 1
                     /\ last' = Outcome("add", name, <<>>, "ok")

AddClient(name, created_by, fault) ==
    AddClientAt(name, created_by, fault, GetAvailableIPv4(doc), GetAvailableIPv6(doc))

----------------------------------------------------------------------------
(* remove_client(name).  Results: false (not found), true, error.         *)

RemoveClient(name, fault) ==
    LET client == WireGuardClient(name, 0, 0, NoKey, NoKey, NoKey, NoPath)
        removed == RemoveFile(files, ConfigPath(name))
    IN
    IF ~ClientExists(doc, name) /\ ~WireguardClientExists(db, name)
    THEN /\ fault = "none"
         /\ last' = Outcome("remove", name, <<>>, "false")
         /\ UNCHANGED <<doc, db, files, nextKey, now>>
    ELSE CASE fault = "doc" ->
                /\ files' = removed
                /\ last' = Outcome("remove", name, <<>>, "error")
                /\ UNCHANGED <<doc, db, nextKey, now>>
           [] SyncWireguardSafe(fault) ->
                /\ files' = removed
                /\ doc' = UpdateServerConfig(doc, client, TRUE)
                /\ last' = Outcome("remove", name, <<>>, "error")
                /\ UNCHANGED <<db, nextKey, now>>
           [] OTHER ->
                /\ files' = removed
                /\ doc' = UpdateServerConfig(doc, client, TRUE)
                /\ db' = IF fault = "dbdelete" THEN db
                         ELSE RemoveWireguardClient(db, name)
                /\ last' = Outcome("remove", name, <<>>, "true")
                /\ UNCHANGED <<nextKey, now>>

----------------------------------------------------------------------------
(* rename_client(old_name, new_name).  Results:                           *)
(*   invalid    ValueError raised by the name test                        *)
(*   notfound   (False, "... not found in system")                        *)
(*   conflict   (False, "... already exists in database" / "in config")   *)
(*   same       (True, "... is already named ...")                        *)
(*   nodata     (False, "... not found in database")                      *)
(*   ok         (True, "... successfully renamed ...")                    *)
(*   error      RuntimeError raised by the except clause                  *)

\* rename_client without its checks of the new name
RenameChecksOldOnly(old_name, new_name) ==
    IF ~ValidName(old_name) \/ ~ValidName(new_name) THEN "invalid"
    ELSE IF ~ClientExists(doc, old_name) /\ ~WireguardClientExists(db, old_name)
    THEN "notfound"
    ELSE IF ~WireguardClientExists(db, old_name) THEN "nodata"
    ELSE "go"

\* the checks of rename_client before anything is written: the result
\* they end the call with, or "go"
RenameChecks(old_name, new_name) ==
    LET old_exists_in_config == ClientExists(doc, old_name)
        old_exists_in_db == WireguardClientExists(db, old_name)
        new_exists_in_config == ClientExists(doc, new_name)
        new_exists_in_db == WireguardClientExists(db, new_name)
        new_public_key == GetClientPublicKeyFromConfig(doc, new_name)
    IN
    IF ~ValidName(old_name) \/ ~ValidName(new_name) THEN "invalid"
    ELSE IF ~old_exists_in_config /\ ~old_exists_in_db THEN "notfound"
    ELSE IF new_exists_in_db THEN "conflict"
    ELSE IF new_exists_in_config /\ old_name = new_name THEN "same"
    ELSE IF ~old_exists_in_db THEN "nodata"
    ELSE IF new_exists_in_config
            /\ db[old_name].public_key # new_public_key
    THEN "conflict"
    ELSE "go"

RenameClient(old_name, new_name, fault) ==
    LET checked == RenameChecks(old_name, new_name)
        client_data == db[old_name]
        client0 == WireGuardClient(new_name, client_data.ipv4,
                      client_data.ipv6, client_data.public_key,
                      client_data.private_key, client_data.preshared_key,
                      NoPath)
        client == [client0 EXCEPT !.config_file = ConfigPath(new_name)]
        old_client == [client0 EXCEPT !.name = old_name]
        returned(res) ==
            /\ fault = "none"
            /\ last' = Outcome("rename", old_name, new_name, res)
            /\ UNCHANGED <<doc, db, files, nextKey, now>>
    IN
    IF checked # "go" THEN returned(checked)
    ELSE
      /\ now < MaxTime
      /\ CASE fault = "chmod" ->
                \* new_config_file is not bound yet: the except clause
                \* removes nothing
                /\ files' = CreateClientConfigNoChmod(files, client0)
                /\ last' = Outcome("rename", old_name, new_name, "error")
                /\ UNCHANGED <<doc, db, nextKey, now>>
           [] fault = "doc" ->
                /\ files' = RemoveFile(CreateClientConfig(files, client0),
                                       client.config_file)
                /\ last' = Outcome("rename", old_name, new_name, "error")
                /\ UNCHANGED <<doc, db, nextKey, now>>
           [] SyncWireguardSafe(fault) ->
                /\ files' = RemoveFile(CreateClientConfig(files, client0),
                                       client.config_file)
                /\ doc' = UpdateServerConfig(
                              UpdateServerConfig(doc, old_client, TRUE),
                              client, FALSE)
                /\ now' = now + 1
                /\ last' = Outcome("rename", old_name, new_name, "error")
                /\ UNCHANGED <<db, nextKey>>
           [] OTHER ->
                /\ doc' = UpdateServerConfig(
                              UpdateServerConfig(doc, old_client, TRUE),
                              client, FALSE)
                \* created_by is given client_data[7], the created_at column
                /\ db' = IF fault = "dbinsert"
                         THEN RemoveWireguardClient(db, old_name)
                         ELSE AddWireguardClient(
                                  RemoveWireguardClient(db, old_name),
                                  client, now, client_data.created_at)
                /\ files' = RemoveFile(CreateClientConfig(files, client0),
                                       ConfigPath(old_name))
                /\ now' = now + 1
                /\ last' = Outcome("rename", old_name, new_name, "ok")
                /\ UNCHANGED nextKey

----------------------------------------------------------------------------
(* The manager is driven by one call after another.  Spec: any of the     *)
(* name arguments, in an environment in which no step fails.              *)

Next ==
    \/ /\ \E name \in Names, by \in Callers : AddClient(name, by, "none")
       /\ UNCHANGED tasks
    \/ /\ \E name \in Names : RemoveClient(name, "none")
       /\ UNCHANGED tasks
    \/ /\ \E old_name \in Names, new_name \in Names :
              RenameClient(old_name, new_name, "none")
       /\ UNCHANGED tasks

Spec == Init /\ [][Next]_vars

\* SpecFaults: well-formed names, in an environment in which any step of
\* a call may fail
FaultNames == {nT, nTB}

NextFaults ==
    \/ /\ \E name \in FaultNames, by \in Callers, fault \in AddFaults :
              AddClient(name, by, fault)
       /\ UNCHANGED tasks
    \/ /\ \E name \in FaultNames, fault \in RemoveFaults :
              RemoveClient(name, fault)
       /\ UNCHANGED tasks
    \/ /\ \E old_name \in FaultNames, new_name \in FaultNames,
             fault \in RenameFaults :
              RenameClient(old_name, new_name, fault)
       /\ UNCHANGED tasks

SpecFaults == Init /\ [][NextFaults]_vars

----------------------------------------------------------------------------
(* Construction over an existing installation.  WireGuardManager() ends   *)
(* with _sync_existing_clients, which backfills the registry from the     *)
(* headers of the config document.  SpecRestart starts before the         *)
(* constructor has run, from what an earlier life of the program has left *)
(* behind:                                                                *)
(*   - the document holds the sections of "x" and "tb", and possibly of   *)
(*     "tc", as add_client and rename_client wrote them; "tb" and "tc"    *)
(*     have the same address: remove_client("t") once deleted the section *)
(*     of the one, add_client gave its address to the other, and a rename *)
(*     wrote the section back;                                            *)
(*   - the client files of the sections are absent, are the files that    *)
(*     were written for them, or are present with none of the lines the   *)
(*     parser looks for (open(..., "w") has truncated them and the write  *)
(*     never happened);                                                   *)
(*   - the registry is empty (a new database file), holds the row of "x"  *)
(*     only, or holds the rows of all sections.                           *)
(* The constructor runs again whenever the process is started again.      *)

nX == <<"x">>

nTC == <<"t", "c">>

\* where a client file has no such line at all
NoLine == <<"noline", 0>>

\* what ([^\s\n]+) captures after "PrivateKey = " when the value is empty:
\* \s* runs over the line feed, and the next word is that of the next line
NextWordAfterPrivateKey == <<"Address", 0>>

\* the same after "PresharedKey = "
NextWordAfterPresharedKey == <<"Endpoint", 0>>

\* a client file in which no PrivateKey, PresharedKey or Address is found
UnparsableFile == [private_key |-> NoLine, preshared_key |-> NoLine, ipv4 |-> 0, ipv6 |-> 0, mode |-> "0600"]

\* what goes wrong while one name is backfilled:
\*   pubkeyexit      wg pubkey exits non-zero (CalledProcessError, passed)
\*   pubkeymissing   wg is not installed (FileNotFoundError)
\*   unreadable      the client file cannot be opened
\*   dbinsert        sqlite3.Error inside add_wireguard_client
BackfillFaults == {"none", "pubkeyexit", "pubkeymissing", "unreadable", "dbinsert"}

\* _parse_client_config: client_info, with "" for an entry it lacks; none
\* when client_info is empty or an exception was caught.  wg pubkey is
\* given what was captured and fails on a word that is not a key.
ParseClientConfig(file, fault) ==
    LET private_key == IF file.private_key = NoLine THEN NoKey
                       ELSE IF file.private_key = NoKey
                            THEN NextWordAfterPrivateKey
                            ELSE file.private_key
        preshared_key == IF file.preshared_key = NoLine THEN NoKey
                         ELSE IF file.preshared_key = NoKey
                              THEN NextWordAfterPresharedKey
                              ELSE file.preshared_key
    IN  [none |-> \/ fault = "unreadable"
                  \/ fault = "pubkeymissing" /\ private_key # NoKey
                  \/ /\ private_key = NoKey /\ preshared_key = NoKey
                     /\ file.ipv4 = 0 /\ file.ipv6 = 0,
         private_key |-> private_key,
         public_key |-> IF private_key[1] = "priv" /\ fault # "pubkeyexit"
                        THEN PubOf(private_key) ELSE NoKey,
         preshared_key |-> preshared_key,
         ipv4 |-> file.ipv4, ipv6 |-> file.ipv6]

\* _add_missing_client_to_db(client_name); at is the second of the INSERT
AddMissingClientToDb(table, fs, client_name, at, fault) ==
    IF ConfigPath(client_name) \in DOMAIN fs
    THEN LET info == ParseClientConfig(fs[ConfigPath(client_name)], fault)
         IN  IF info.none \/ fault = "dbinsert" THEN table
             ELSE AddWireguardClient(table,
                      WireGuardClient(client_name, info.ipv4, info.ipv6,
                                      info.public_key, info.private_key,
                                      info.preshared_key,
                                      ConfigPath(client_name)),
                      at, 0)
    ELSE IF fault = "dbinsert" THEN table
    ELSE AddWireguardClient(table,
             WireGuardClient(client_name, 0, 0, NoKey, NoKey, NoKey, NoPath),
             at, 0)

\* the loop of _sync_existing_clients when the failure of one name ends it
RECURSIVE AddMissingClientsUntilFailure(_, _, _, _, _, _)
AddMissingClientsUntilFailure(table, fs, missing, at, victim, fault) ==
    IF missing = <<>> THEN table
    ELSE LET client_name == Head(missing)
         IN  IF client_name = victim /\ fault # "none" THEN table
             ELSE AddMissingClientsUntilFailure(
                      AddMissingClientToDb(table, fs, client_name, at, "none"),
                      fs, Tail(missing), at, victim, fault)

\* missing_in_db: the header names without a row when the constructor
\* reads the registry, in the order of the document, a name once for each
\* of its headers
MissingClients(table, lines) ==
    LET NoRow(client_name) == client_name \notin DOMAIN table
    IN  SelectSeq(GetClientsFromConfig(lines), NoRow)

\* the loop of _sync_existing_clients over missing_in_db; fault is what
\* goes wrong for victim
RECURSIVE AddMissingClients(_, _, _, _, _, _)
AddMissingClients(table, fs, missing, at, victim, fault) ==
    IF missing = <<>> THEN table
    ELSE LET client_name == Head(missing)
             f == IF client_name = victim THEN fault ELSE "none"
         IN  AddMissingClients(
                 AddMissingClientToDb(table, fs, client_name, at, f),
                 fs, Tail(missing), at, victim, fault)

\* _sync_existing_clients with a registry rebuilt from the document
SyncExistingClientsRebuild(victim, fault) ==
    /\ last.op = "seed"
    /\ db' = AddMissingClients(EmptyMap, files, GetClientsFromConfig(doc), now, victim, fault)
    /\ last' = Outcome("construct", IF fault = "none" THEN <<>> ELSE victim, <<>>, fault)
    /\ UNCHANGED <<doc, files, nextKey, now>>

\* WireGuardManager(): _sync_existing_clients; every exception is caught
\* and logged, so the constructor has one result.  last keeps the failure
\* that was met.
SyncExistingClients(victim, fault) ==
    /\ last.op = "seed"
    /\ db' = AddMissingClients(db, files, MissingClients(db, doc), now, victim, fault)
    /\ last' = Outcome("construct", IF fault = "none" THEN <<>> ELSE victim, <<>>, fault)
    /\ UNCHANGED <<doc, files, nextKey, now>>

\* the process ends between two calls and is started again
Restart ==
    /\ last.op \notin {"seed", "construct"}
    /\ last' = Outcome("seed", <<>>, <<>>, "none")
    /\ UNCHANGED <<doc, db, files, nextKey, now>>

\* the client add_client made with the g-th and (g+1)-th key invocation
SeedClient(name, g, host) ==
    WireGuardClient(name, host, host, PubOf(GenPrivate(g)), GenPrivate(g), GenPreshared(g + 1), ConfigPath(name))

SeedClients == (nX :> SeedClient(nX, 1, MinHost)) @@ (nTB :> SeedClient(nTB, 3, MinHost + 1)) @@ (nTC :> SeedClient(nTC, 5, MinHost + 1))

\* the names whose sections the document may hold, in the order of the adds
SeedSections == <<nX, nTB, nTC>>

FileStates == {"absent", "written", "unparsable"}

RECURSIVE SeedDoc(_, _)
SeedDoc(S, i) ==
    IF i > Len(SeedSections) THEN <<>>
    ELSE (IF SeedSections[i] \in S
          THEN RenderSection(SeedClients[SeedSections[i]]) ELSE <<>>)
           \o SeedDoc(S, i + 1)

\* the client files of the sections, all in the same state
SeedFiles(S, state) ==
    [p \in {ConfigPath(n) : n \in {m \in S : state # "absent"}} |->
        IF state = "written" THEN ClientFile(SeedClients[p[2]], "0600")
        ELSE UnparsableFile]

SeedRows(R) == [n \in R |-> Row(SeedClients[n], 0, 7)]

\* the key invocations the clients that are left have used
SeedKeys(U) ==
    IF U = {} THEN 0
    ELSE LET gs == {SeedClients[n].preshared_key[2] : n \in U}
         IN  CHOOSE g \in gs : \A h \in gs : h <= g

\* the state a process is started in: sections S, files in one state,
\* rows R
Seeded(S, state, R) ==
    /\ doc = InitDoc \o SeedDoc(S, 1)
    /\ files = SeedFiles(S, state)
    /\ db = SeedRows(R)
    /\ nextKey = SeedKeys(S \cup R)
    \* the earlier life has left the clock two seconds
    /\ now = MaxTime - 2
    /\ last = Outcome("seed", <<>>, <<>>, "none")
    /\ tasks = IdleTasks

InitRestart ==
    \E S \in {{nX, nTB}, {nX, nTB, nTC}} :
      \E state \in FileStates :
        \E R \in {{}, S} :
          Seeded(S, state, R)

\* the calls made after construction, and the failures they meet
RestartNames == {nX, nT, nTB}

RestartFaults == {"none", "syncdenied"}

NextRestart ==
    \/ /\ SyncExistingClients(<<>>, "none")
       /\ UNCHANGED tasks
    \/ /\ last.op # "seed"
       /\ \E name \in RestartNames, by \in Callers : AddClient(name, by, "none")
       /\ UNCHANGED tasks
    \/ /\ last.op # "seed"
       /\ \E name \in RestartNames : RemoveClient(name, "none")
       /\ UNCHANGED tasks
    \/ /\ last.op # "seed"
       /\ \E old_name \in RestartNames, new_name \in RestartNames,
             fault \in RestartFaults :
              RenameClient(old_name, new_name, fault)
       /\ UNCHANGED tasks

SpecRestart == InitRestart /\ [][NextRestart]_vars

----------------------------------------------------------------------------
(* Construction that meets failures, and processes started again          *)
(*                                                                        *)
(* The registry of the seed is empty, holds the row of "x" only (the      *)
(* other sections were written by hand or by an earlier database), or     *)
(* holds every row.  While one name is backfilled something may go wrong. *)
(* Between two calls the process may end and be started again, and the    *)
(* constructor then reconciles what the calls have left.                  *)

InitReboot ==
    \E state \in FileStates :
      \E R \in {{}, {nX}} :
        Seeded({nX, nTB, nTC}, state, R)

RebootNames == {nX, nT}

RebootFaults == {"none", "dbinsert"}

NextReboot ==
    \/ /\ \E victim \in {nX, nTB, nTC}, fault \in BackfillFaults :
              SyncExistingClients(victim, fault)
       /\ UNCHANGED tasks
    \/ /\ Restart
       /\ UNCHANGED tasks
    \/ /\ last.op # "seed"
       /\ \E name \in RebootNames : RemoveClient(name, "none")
       /\ UNCHANGED tasks
    \/ /\ last.op # "seed"
       /\ \E old_name \in RebootNames, new_name \in RebootNames,
             fault \in RebootFaults :
              RenameClient(old_name, new_name, fault)
       /\ UNCHANGED tasks

SpecReboot == InitReboot /\ [][NextReboot]_vars

----------------------------------------------------------------------------
(* What the properties below speak of *)

\* name has a row in the registry
HasRecord(table, name) == name \in DOMAIN table

\* the three keys of a row are non-empty
HasKeys(row) ==
    row.public_key # NoKey /\ row.private_key # NoKey
      /\ row.preshared_key # NoKey

\* the document has a peer section whose header names exactly name
HasSection(lines, name) == name \in ConfigClients(lines)

\* the lines of the first section headed exactly name: from its header up
\* to the next blank line or header; <<>> when there is none
SectionOf(lines, name) ==
    LET hs == {i \in DOMAIN lines : lines[i] = <<"hdr", name>>}
    IN  IF hs = {} THEN <<>>
        ELSE LET h    == MinOf(hs)
                 stop == {j \in (h + 1)..Len(lines) :
                             lines[j][1] \in {"blank", "hdr"}}
                 e    == IF stop = {} THEN Len(lines) ELSE MinOf(stop) - 1
             IN  SubSeq(lines, h, e)

\* the header lines of the names outside touched, in document order
OtherHeaders(lines, touched) ==
    SelectSeq(lines, LAMBDA l : l[1] = "hdr" /\ l[2] \notin touched)

\* every section of a name outside touched is in after what it is in
\* before, and these sections stand in the same order
OthersKept(before, after, touched) ==
    /\ OtherHeaders(after, touched) = OtherHeaders(before, touched)
    /\ \A m \in ConfigClients(before) \ touched :
           SectionOf(after, m) = SectionOf(before, m)

\* name is in the sequence list_clients() returns
Listed(table, lines, name) ==
    \E i \in DOMAIN ListClients(table, lines) :
        ListClients(table, lines)[i] = name

\* name is outside the pattern [A-Za-z0-9_-]{1,15}
OutsidePattern(name) ==
    \/ name = <<>>
    \/ Len(name) > MaxNameLen
    \/ \E i \in DOMAIN name : name[i] \notin NameChars

\* no host index of the range is free for IPv4, or none for IPv6
Exhausted(lines) ==
    \/ \A i \in MinHost..MaxHost : i \in UsedIPv4(lines)
    \/ \A i \in MinHost..MaxHost : i \in UsedIPv6(lines)

\* every key held by a record, a section or a client file is a generated
\* key of its kind, and a record's public key is the one of its private key
WholeTriples ==
    /\ \A n \in DOMAIN db :
           /\ db[n].private_key[1] = "priv"
           /\ db[n].public_key = PubOf(db[n].private_key)
           /\ db[n].preshared_key[1] = "psk"
    /\ \A i \in DOMAIN doc :
           /\ doc[i][1] = "pub" =>
                 /\ doc[i][2][1] = "pub"
                 /\ i < Len(doc)
                 /\ doc[i + 1][1] = "psk"
           /\ doc[i][1] = "psk" => doc[i][2][1] = "psk"
    /\ \A p \in DOMAIN files :
           /\ files[p].private_key[1] = "priv"
           /\ files[p].preshared_key[1] = "psk"

----------------------------------------------------------------------------
(* Properties *)

\* C1: after every completed add_client, remove_client or rename_client,
\* no two registry records share an IPv4 address and no two share an IPv6
\* address.
C1_UniqueAddresses ==
    \A a \in DOMAIN db : \A b \in DOMAIN db :
        a # b => db[a].ipv4 # db[b].ipv4 /\ db[a].ipv6 # db[b].ipv6

\* C2: after every completed call, a name has a registry record with a
\* non-empty key triple exactly when the document has a peer section with
\* that name.
C2_RecordIffSection ==
    \A n \in Names \cup (DOMAIN db) \cup ConfigClients(doc) :
        (HasRecord(db, n) /\ HasKeys(db[n])) <=> HasSection(doc, n)

\* C3: remove_client(n) and rename_client(old, new) leave the peer section
\* of every other name m in the document with the same content and in the
\* same relative order.
C3_EditTouchesOnlyName ==
    [][/\ last'.op = "remove" => OthersKept(doc, doc', {last'.a})
       /\ last'.op = "rename" => OthersKept(doc, doc', {last'.a, last'.b})
      ]_vars

\* C4: remove_client(name) for a name with neither a registry record nor a
\* peer section named exactly name returns false and leaves the document,
\* the registry and the client files unchanged.
C4_RemoveAbsentIsNoOp ==
    [][(/\ last'.op = "remove"
        /\ ~HasRecord(db, last'.a)
        /\ ~HasSection(doc, last'.a))
          => (last'.res = "false" /\ UNCHANGED stores)
      ]_vars

\* C5: after a successful remove_client(name), name has no peer section,
\* name is not in what list_clients() returns, and name's client file does
\* not exist.
C5_RemovedIsGone ==
    (last.op = "remove" /\ last.res = "true") =>
        /\ ~HasSection(doc, last.a)
        /\ ~Listed(db, doc, last.a)
        /\ GetClientConfig(files, last.a) = NoFile

\* C6: when add_client(name, by) returns success, the registry has a
\* record for name, get_client_config(name) returns a file whose
\* PresharedKey and Address are the record's, and name's peer section
\* holds the record's keys and addresses.
C6_AddRoundTrip ==
    (last.op = "add" /\ last.res = "ok") =>
        /\ HasRecord(db, last.a)
        /\ LET row  == db[last.a]
               file == GetClientConfig(files, last.a)
               sec  == SectionOf(doc, last.a)
           IN  /\ file # NoFile
               /\ file.preshared_key = row.preshared_key
               /\ file.ipv4 = row.ipv4 /\ file.ipv6 = row.ipv6
               /\ \E i \in DOMAIN sec : sec[i] = <<"pub", row.public_key>>
               /\ \E i \in DOMAIN sec : sec[i] = <<"psk", row.preshared_key>>
               /\ \E i \in DOMAIN sec : sec[i] = <<"ips", row.ipv4, row.ipv6>>

C8_AddExistingIsConflict ==
    [][(/\ last'.op = "add"
        /\ HasRecord(db, last'.a) \/ HasSection(doc, last'.a))
          => (last'.res = "conflict" /\ UNCHANGED stores)
      ]_vars

\* a name with a record and a section has been refused
C8_Witness ==
    /\ last.op = "add" /\ last.res = "conflict"
    /\ HasRecord(db, last.a) /\ HasSection(doc, last.a)

\* C9: add_client(name) and rename_client(old, new) reject every name that
\* is empty, longer than 15 characters or has a character outside
\* [A-Za-z0-9_-] and leave the three stores unchanged, so every name in the
\* registry matches the pattern.
C9_BadNamesRejected ==
    [][/\ (\/ last'.op = "add" /\ OutsidePattern(last'.a)
           \/ /\ last'.op = "rename"
              /\ OutsidePattern(last'.a) \/ OutsidePattern(last'.b))
          => (last'.res = "invalid" /\ UNCHANGED stores)
       /\ \A n \in DOMAIN db' : ~OutsidePattern(n)
      ]_vars

\* C10: when one of the three key invocations fails during add_client, the
\* call returns an error and leaves the three stores unchanged; no record,
\* section or file ever holds a partly generated key triple.
C10_KeyFailureCreatesNothing ==
    [][/\ last'.op = "add" =>
              \A by \in Callers : \A f \in KeyFaults :
                  AddClient(last'.a, by, f)
                    => (last'.res = "toolerror" /\ UNCHANGED stores)
       /\ WholeTriples'
      ]_vars

\* a key invocation has failed while a client was there
C10_Witness ==
    /\ last.op = "add" /\ last.res = "toolerror"
    /\ ~HasRecord(db, last.a) /\ ~HasSection(doc, last.a)
    /\ GetClientConfig(files, last.a) = NoFile
    /\ DOMAIN db # {}

\* name has no record, no section of its own and no client file
Absent(table, lines, fs, name) ==
    /\ ~HasRecord(table, name)
    /\ ~HasSection(lines, name)
    /\ GetClientConfig(fs, name) = NoFile

\* C11: when add_client(name) for a name that was absent ends with an error,
\* no client file of name is left, whether the failure is inside the file
\* write (content written, chmod failed) or in a later step.
C11_AddErrorLeavesNoFile ==
    [][(/\ last'.op = "add"
        /\ last'.res \in {"invalid", "exhausted", "toolerror", "error"}
        /\ Absent(db, doc, files, last'.a))
          => GetClientConfig(files', last'.a) = NoFile
      ]_vars

\* C12: for add_client, remove_client and rename_client, a live sync that
\* fails because the tool is missing or exits non-zero never makes the call
\* fail: the result and the three stores are those of the same call with a
\* sync that succeeds.
C12_SyncFailureIsHarmless ==
    [][\A f \in SyncCaught :
          /\ last'.op = "add" =>
                \A by \in Callers :
                    AddClient(last'.a, by, f) => AddClient(last'.a, by, "none")
          /\ last'.op = "remove" =>
                (RemoveClient(last'.a, f) => RemoveClient(last'.a, "none"))
          /\ last'.op = "rename" =>
                (RenameClient(last'.a, last'.b, f)
                   => RenameClient(last'.a, last'.b, "none"))
      ]_vars

\* a call has gone through its live sync and has written all three stores
C12_Witness ==
    /\ last.op = "add" /\ last.res = "ok"
    /\ HasRecord(db, last.a) /\ HasSection(doc, last.a)
    /\ GetClientConfig(files, last.a) # NoFile
    /\ ENABLED (\E f \in SyncCaught : RemoveClient(last.a, f))

\* C13: rename_client(old, new) when old and new both have a registry
\* record, with different public keys, returns the conflict result and
\* leaves the records, sections and files of old and new unchanged.
C13_RenameOntoRecordIsConflict ==
    [][(/\ last'.op = "rename"
        /\ HasRecord(db, last'.a) /\ HasRecord(db, last'.b)
        /\ db[last'.a].public_key # db[last'.b].public_key)
          => (last'.res = "conflict" /\ UNCHANGED stores)
      ]_vars

\* a rename onto a name with a record of its own has been refused
C13_Witness ==
    /\ last.op = "rename" /\ last.res = "conflict"
    /\ HasRecord(db, last.a) /\ HasRecord(db, last.b)
    /\ db[last.a].public_key # db[last.b].public_key
    /\ HasSection(doc, last.a) /\ HasSection(doc, last.b)

\* the public key the section headed exactly name holds
SectionPublicKey(lines, name) ==
    LET sec == SectionOf(lines, name)
        js  == {i \in DOMAIN sec : sec[i][1] = "pub"}
    IN  IF js = {} THEN NoneKey ELSE sec[MinOf(js)][2]

\* how many header lines name exactly name
HeaderCount(lines, name) ==
    Cardinality({i \in DOMAIN lines : lines[i] = <<"hdr", name>>})

\* old has a record, new has none, and the document already has a section
\* named new with old's public key
HalfRenamed(old, new) ==
    /\ old # new
    /\ HasRecord(db, old) /\ ~HasRecord(db, new)
    /\ HasSection(doc, new)
    /\ SectionPublicKey(doc, new) = db[old].public_key

\* C14: rename_client(old, new), when old has a record, new has none and
\* the document already holds a section named new with old's public key,
\* succeeds; afterwards the registry has the record under new and not
\* under old, and the document has exactly one section for new and none
\* for old.
C14_RenameSelfHeal ==
    [][(/\ last'.op = "rename"
        /\ HalfRenamed(last'.a, last'.b)
        /\ RenameClient(last'.a, last'.b, "none"))
          => /\ last'.res = "ok"
             /\ HasRecord(db', last'.b) /\ ~HasRecord(db', last'.a)
             /\ HeaderCount(doc', last'.b) = 1
             /\ HeaderCount(doc', last'.a) = 0
      ]_vars


\* C15: after a successful rename_client(old, new) with old # new, the
\* record of new has the ipv4, ipv6, public key, private key, preshared
\* key, created_at and created_by that the record of old had before the
\* call.
C15_RenameKeepsRecord ==
    [][(/\ last'.op = "rename" /\ last'.res = "ok"
        /\ last'.a # last'.b
        /\ HasRecord(db, last'.a))
          => /\ HasRecord(db', last'.b)
             /\ \A k \in {"ipv4", "ipv6", "public_key", "private_key", "preshared_key", "created_at", "created_by"} :
                   db'[last'.b][k] = db[last'.a][k]
      ]_vars

\* the record of name points at a file that exists and holds the record's
\* private key, preshared key and addresses
FileMatchesRecord(table, fs, name) ==
    LET r == table[name]
    IN  \/ r.config_file = NoPath
        \/ /\ r.config_file \in DOMAIN fs
           /\ \A k \in {"private_key", "preshared_key", "ipv4", "ipv6"} :
                 fs[r.config_file][k] = r[k]

\* C16: after every completed add_client, remove_client or rename_client
\* call, successful or not, every record with a non-empty config_file
\* refers to an existing client file whose private key, preshared key and
\* addresses equal the record's.
C16_RecordsPointAtTheirFiles ==
    last.op \in {"add", "remove", "rename"}
        => \A name \in DOMAIN db : FileMatchesRecord(db, files, name)

\* C17: when rename_client(old, new) ends in an error after it wrote the
\* client file of new, that file has been deleted when the error reaches
\* the caller. Every error of a rename that got as far as the try block
\* comes after the write; the file of new did not exist before the call.
C17_RenameErrorDeletesNewFile ==
    [][(/\ last'.op = "rename" /\ last'.res = "error"
        /\ GetClientConfig(files, last'.b) = NoFile)
          => GetClientConfig(files', last'.b) = NoFile
      ]_vars

\* C18: in every rename_client(old, new), the section of old is removed
\* and the file of old is deleted only after the file of new has been
\* completely written, and the file of old is deleted only after the
\* registry row has been moved to new. Deleting the old file is the last
\* step of the call, so a call that deleted it has written the new file
\* and has moved the row: the file of new exists, new has a record and
\* old has none.
C18_OldFileDeletedLast ==
    [][(/\ last'.op = "rename" /\ last'.a # last'.b
        /\ GetClientConfig(files, last'.a) # NoFile
        /\ GetClientConfig(files', last'.a) = NoFile)
          => /\ GetClientConfig(files', last'.b) # NoFile
             /\ HasRecord(db', last'.b)
             /\ ~HasRecord(db', last'.a)
      ]_vars

\* no client name heads more than one section of the document
OneSectionPerName(lines) ==
    \A i \in DOMAIN lines : \A j \in DOMAIN lines :
        (lines[i][1] = "hdr" /\ lines[j][1] = "hdr" /\ lines[i][2] = lines[j][2])
            => i = j

\* C19: after any sequence of add_client, remove_client and rename_client
\* calls that starts from a document with at most one section per client
\* name, the document has at most one section per client name.
C19_OneSectionPerName == OneSectionPerName(doc)

\* C20: after the manager is constructed, every client name that has a
\* section header in the config document has a registry record, whether
\* the client's own config file is absent, parsable, or present but
\* unparsable.
C20_ConstructedBackfillsAll ==
    last.op = "construct" => \A name \in ConfigClients(doc) : HasRecord(db, name)

----------------------------------------------------------------------------
(* Reconciliation (SpecReboot) *)

\* the names of the document that have no row
MissingInDb == ConfigClients(doc) \ DOMAIN db

\* row is the minimal row of a name whose file was not found
MinimalRow(row) ==
    /\ row.ipv4 = 0 /\ row.ipv6 = 0
    /\ row.public_key = NoKey /\ row.private_key = NoKey
    /\ row.preshared_key = NoKey /\ row.config_file = NoPath

C23_BackfilledRow ==
    [][(last'.op = "construct" /\ last'.res = "none") =>
          \A name \in MissingInDb :
             LET path == ConfigPath(name)
             IN  IF path \notin DOMAIN files
                 THEN /\ HasRecord(db', name)
                      /\ db'[name].created_by = 0
                      /\ MinimalRow(db'[name])
                 ELSE ~ParseClientConfig(files[path], "none").none =>
                         /\ HasRecord(db', name)
                         /\ db'[name].created_by = 0
                         /\ db'[name].private_key
                               = (IF files[path].private_key = NoLine THEN NoKey ELSE files[path].private_key)
                         /\ db'[name].preshared_key
                               = (IF files[path].preshared_key = NoLine THEN NoKey ELSE files[path].preshared_key)
                         /\ db'[name].ipv4 = files[path].ipv4
                         /\ db'[name].ipv6 = files[path].ipv6
                         /\ db'[name].config_file = path]_vars

----------------------------------------------------------------------------
(* Command handlers on the event loop (SpecHandlers)                      *)
(*                                                                        *)
(* Every command is handled by a coroutine of its own, and the coroutines *)
(* of several events are pending at once on one event loop, in one        *)
(* thread.  A coroutine keeps the thread until it reaches an await.       *)
(* _handle_wg_add_command, _handle_wg_remove_command and                  *)
(* _handle_wg_rename_command call the manager as an ordinary function and *)
(* await only when they send the reply.  pc of a task:                    *)
(*   idle      no event                                                   *)
(*   pending   the event has arrived, the coroutine has not run yet       *)
(*   incall    inside add_client, remove_client or rename_client;         *)
(*             add_client holds the two addresses it has obtained         *)
(*   replying  the call has returned, the reply is awaited                *)

\* the point is one at which any coroutine gives up the thread
YieldsAnywhere(point) == TRUE

\* the point is one at which the coroutine gives up the thread
Yields(point) == point # "incall"

\* the event loop can run handler h: no other coroutine holds the thread
CanRun(h) == \A g \in Handlers \ {h} : Yields(tasks[g].pc)

\* the names the commands are given
HandlerNames == {nX, nTB}

\* the commands: wgadd a, wgremove a, wgrename a b
Commands ==
    {[op |-> "add", a |-> a, b |-> <<>>] : a \in HandlerNames}
      \cup {[op |-> "remove", a |-> a, b |-> <<>>] : a \in HandlerNames}
      \cup {[op |-> "rename", a |-> a, b |-> b] : a \in HandlerNames, b \in HandlerNames}

\* an event with a command arrives for handler h
Receive(h, cmd) ==
    /\ tasks[h].pc = "idle"
    /\ CanRun(h)
    /\ tasks' = [tasks EXCEPT ![h] = [IdleTask EXCEPT !.pc = "pending", !.op = cmd.op, !.a = cmd.a, !.b = cmd.b]]
    /\ UNCHANGED <<doc, db, files, nextKey, now, last>>

\* the coroutine runs into the call; add_client obtains its addresses
EnterCall(h) ==
    /\ tasks[h].pc = "pending"
    /\ CanRun(h)
    /\ tasks' = [tasks EXCEPT ![h].pc = "incall",
                              ![h].ipv4 = IF tasks[h].op = "add" THEN GetAvailableIPv4(doc) ELSE 0,
                              ![h].ipv6 = IF tasks[h].op = "add" THEN GetAvailableIPv6(doc) ELSE 0]
    /\ UNCHANGED <<doc, db, files, nextKey, now, last>>

\* the call does its writes and returns; the handler awaits the reply
ReturnFromCall(h) ==
    /\ tasks[h].pc = "incall"
    /\ CanRun(h)
    /\ CASE tasks[h].op = "add" ->
              \E by \in Callers :
                 AddClientAt(tasks[h].a, by, "none", tasks[h].ipv4, tasks[h].ipv6)
         [] tasks[h].op = "remove" -> RemoveClient(tasks[h].a, "none")
         [] tasks[h].op = "rename" -> RenameClient(tasks[h].a, tasks[h].b, "none")
    /\ tasks' = [tasks EXCEPT ![h].pc = "replying"]

\* the reply has been sent
Replied(h) ==
    /\ tasks[h].pc = "replying"
    /\ CanRun(h)
    /\ tasks' = [tasks EXCEPT ![h] = IdleTask]
    /\ UNCHANGED <<doc, db, files, nextKey, now, last>>

NextHandlers ==
    \/ \E h \in Handlers, cmd \in Commands : Receive(h, cmd)
    \/ \E h \in Handlers : EnterCall(h)
    \/ \E h \in Handlers : ReturnFromCall(h)
    \/ \E h \in Handlers : Replied(h)

SpecHandlers == Init /\ [][NextHandlers]_vars

\* the handlers that are inside a call
InCall == {h \in Handlers : tasks[h].pc = "incall"}

\* C24: the calls of pending handlers never interleave: while a handler
\* is inside add_client, remove_client or rename_client no other handler
\* is, and when the call returns it has done exactly what the whole call
\* does from the state it returns in; so add_client has written the
\* addresses that were still free and the section edit of no other call
\* has come in between.
C24_CallsNeverInterleave ==
    [][\A h \in Handlers :
          (tasks[h].pc = "incall" /\ tasks'[h].pc = "replying") =>
             /\ InCall = {h}
             /\ CASE tasks[h].op = "add" ->
                       \E by \in Callers : AddClient(tasks[h].a, by, "none")
                  [] tasks[h].op = "remove" -> RemoveClient(tasks[h].a, "none")
                  [] tasks[h].op = "rename" -> RenameClient(tasks[h].a, tasks[h].b, "none")]_vars

\* two wgadd commands are pending at once: the first call has returned
\* and has its section, the second handler is inside add_client and holds
\* another address
C24_Witness ==
    /\ tasks[1].op = "add" /\ tasks[1].pc = "replying" /\ tasks[1].a = nX
    /\ tasks[2].op = "add" /\ tasks[2].pc = "incall" /\ tasks[2].a = nTB
    /\ HasSection(doc, nX)
    /\ tasks[2].ipv4 # tasks[1].ipv4
    /\ tasks[2].ipv4 = GetAvailableIPv4(doc)

----------------------------------------------------------------------------
(* The process ends inside a rewrite of the config document (SpecKill)    *)
(*                                                                        *)
(* _update_server_config writes the document with open(server_config,     *)
(* "w") and writelines: open truncates the file, and the lines reach the  *)
(* disk in order.  A process that ends between the open and the close     *)
(* leaves the lines written so far: any prefix of the new document.       *)
(* Nothing runs afterwards.                                               *)

\* the client add_client has built when it rewrites the document
NewClient(name) ==
    LET keys == GenerateKeys(nextKey, "none")
    IN  WireGuardClient(name, GetAvailableIPv4(doc), GetAvailableIPv6(doc), keys.public_key, keys.private_key, keys.preshared_key, ConfigPath(name))

\* the document the rewrite of add_client(name) or remove_client(name)
\* is writing
RewrittenDoc(op, name) ==
    IF op = "add" THEN UpdateServerConfig(doc, NewClient(name), FALSE)
    ELSE UpdateServerConfig(doc, WireGuardClient(name, 0, 0, NoKey, NoKey, NoKey, NoPath), TRUE)

\* what the file holds when the process ends after cut lines
Interrupted(lines, cut) == SubSeq(lines, 1, cut)

\* add_client(name) up to its rewrite, which is interrupted: the client
\* file is written, the registry row is not
AddClientKilled(name, cut) ==
    /\ ValidName(name)
    /\ ~ClientExists(doc, name) /\ ~WireguardClientExists(db, name)
    /\ ~NoAddress(GetAvailableIPv4(doc), GetAvailableIPv6(doc))
    /\ nextKey + 2 <= MaxKeys
    /\ now < MaxTime
    /\ cut \in 0 .. Len(RewrittenDoc("add", name))
    /\ nextKey' = nextKey + 2
    /\ files' = CreateClientConfig(files, [NewClient(name) EXCEPT !.config_file = NoPath])
    /\ doc' = Interrupted(RewrittenDoc("add", name), cut)
    /\ last' = Outcome("add", name, <<>>, "killed")
    /\ UNCHANGED <<db, now, tasks>>

\* remove_client(name) up to its rewrite, which is interrupted: the client
\* file is deleted, the registry row is not
RemoveClientKilled(name, cut) ==
    /\ ClientExists(doc, name) \/ WireguardClientExists(db, name)
    /\ cut \in 0 .. Len(RewrittenDoc("remove", name))
    /\ files' = RemoveFile(files, ConfigPath(name))
    /\ doc' = Interrupted(RewrittenDoc("remove", name), cut)
    /\ last' = Outcome("remove", name, <<>>, "killed")
    /\ UNCHANGED <<db, nextKey, now, tasks>>

KillNames == {nX, nTB}

NextKill ==
    \/ /\ last.res # "killed"
       /\ \E name \in KillNames, by \in Callers : AddClient(name, by, "none")
       /\ UNCHANGED tasks
    \/ /\ last.res # "killed"
       /\ \E name \in KillNames : RemoveClient(name, "none")
       /\ UNCHANGED tasks
    \/ /\ last.res # "killed"
       /\ \E old_name \in KillNames, new_name \in KillNames :
             RenameClient(old_name, new_name, "none")
       /\ UNCHANGED tasks
    \/ /\ last.res # "killed"
       /\ \E name \in KillNames :
             \E cut \in 0 .. Len(RewrittenDoc("add", name)) :
                AddClientKilled(name, cut)
    \/ /\ last.res # "killed"
       /\ \E name \in KillNames :
             \E cut \in 0 .. Len(RewrittenDoc("remove", name)) :
                RemoveClientKilled(name, cut)

SpecKill == Init /\ [][NextKill]_vars

\* C25: when the process ends inside a rewrite of the config document,
\* the file holds the whole old document or the whole new one.
C25_RewriteIsAtomic ==
    [][last'.res = "killed" =>
          \/ doc' = doc
          \/ doc' = RewrittenDoc(last'.op, last'.a)]_vars

----------------------------------------------------------------------------
(* Tools that never respond (SpecTools)                                   *)
(*                                                                        *)
(* Every tool is run with subprocess.run(..., check=True) and without a   *)
(* timeout argument, so the call waits until the child exits.  A call is  *)
(* invoked (res "called"), and then the program either runs it to its     *)
(* result or is left waiting inside subprocess.run (res "blocked"):       *)
(*   tool "genkey"    wg genkey, the first tool of add_client, before     *)
(*                    anything is written                                 *)
(*   tool "syncconf"  the live sync, after the client file and the        *)
(*                    document are written and before the registry is     *)
(* No step of the program ends the wait.  The program's own steps are     *)
(* taken whenever they can be (the thread runs); invocations are up to    *)
(* the users.                                                             *)

ToolNames == {nX, nTB}

\* the tools a call may be left waiting for
Tools == {"genkey", "syncconf"}

\* a user invokes add_client(a), remove_client(a) or rename_client(a, b)
Invoke(op, a, b) ==
    /\ last.res \notin {"called", "blocked"}
    /\ last' = Outcome(op, a, b, "called")
    /\ UNCHANGED <<doc, db, files, nextKey, now, tasks>>

\* the call that was invoked runs to its result
Returns ==
    /\ last.res = "called"
    /\ CASE last.op = "add" -> \E by \in Callers : AddClient(last.a, by, "none")
         [] last.op = "remove" -> RemoveClient(last.a, "none")
         [] last.op = "rename" -> RenameClient(last.a, last.b, "none")
    /\ UNCHANGED tasks

\* add_client reaches the tool, which never responds
AddClientBlocks(tool) ==
    /\ last.res = "called" /\ last.op = "add"
    /\ ValidName(last.a)
    /\ ~ClientExists(doc, last.a) /\ ~WireguardClientExists(db, last.a)
    /\ ~NoAddress(GetAvailableIPv4(doc), GetAvailableIPv6(doc))
    /\ nextKey + 2 <= MaxKeys
    /\ now < MaxTime
    /\ IF tool = "genkey" THEN UNCHANGED <<doc, files, nextKey>>
       ELSE /\ nextKey' = nextKey + 2
            /\ files' = CreateClientConfig(files, [NewClient(last.a) EXCEPT !.config_file = NoPath])
            /\ doc' = RewrittenDoc("add", last.a)
    /\ last' = [last EXCEPT !.res = "blocked"]
    /\ UNCHANGED <<db, now, tasks>>

\* remove_client reaches the live sync, which never responds
RemoveClientBlocks ==
    /\ last.res = "called" /\ last.op = "remove"
    /\ ClientExists(doc, last.a) \/ WireguardClientExists(db, last.a)
    /\ files' = RemoveFile(files, ConfigPath(last.a))
    /\ doc' = RewrittenDoc("remove", last.a)
    /\ last' = [last EXCEPT !.res = "blocked"]
    /\ UNCHANGED <<db, nextKey, now, tasks>>

\* the steps of the program, as opposed to those of its users
Runs ==
    \/ Returns
    \/ \E tool \in Tools : AddClientBlocks(tool)
    \/ RemoveClientBlocks

NextTools ==
    \/ \E a \in ToolNames : Invoke("add", a, <<>>)
    \/ \E a \in ToolNames : Invoke("remove", a, <<>>)
    \/ \E a \in ToolNames, b \in ToolNames : Invoke("rename", a, b)
    \/ Returns
    \/ \E tool \in Tools : AddClientBlocks(tool)
    \/ RemoveClientBlocks

SpecTools == Init /\ [][NextTools]_vars /\ WF_vars(Runs)

\* C26: every call that is invoked returns, with a result or an error,
\* also when a tool it runs never responds.
C26_CallsReturn ==
    (last.res = "called") ~> (last.res \notin {"called", "blocked"})

----------------------------------------------------------------------------
(* Section bounds *)

\* the index of the first header line that names exactly name, 0 if none
HeaderAt(lines, name) ==
    LET hs == {i \in DOMAIN lines : lines[i] = <<"hdr", name>>}
    IN  IF hs = {} THEN 0 ELSE MinOf(hs)

\* the last line of the section whose header is line h: the next blank
\* line, or the line before the next header, whichever comes first, or
\* the last line of the document
SectionEnd(lines, h) ==
    LET stop == {j \in (h + 1)..Len(lines) : lines[j][1] \in {"blank", "hdr"}}
    IN  IF stop = {} THEN Len(lines)
        ELSE IF lines[MinOf(stop)][1] = "blank" THEN MinOf(stop)
        ELSE MinOf(stop) - 1

\* lines without the section of name
SectionRemoved(lines, name) ==
    LET h == HeaderAt(lines, name)
    IN  SubSeq(lines, 1, h - 1)
          \o SubSeq(lines, SectionEnd(lines, h) + 1, Len(lines))

\* the header of name is the only line the search for name finds
FoundOnlyAtHeader(lines, name) ==
    /\ HeaderCount(lines, name) = 1
    /\ \A i \in DOMAIN lines :
          IsSub(Needle(name), LineText(lines[i])) => lines[i] = <<"hdr", name>>

\* C27: remove_client(n), when the header of n is the one line that the
\* search for n finds, takes out of the document exactly the lines from
\* that header up to the next blank line or the next header line,
\* whichever comes first, or up to the end of the document; a section
\* that follows the section of n without a blank line is kept.
C27_SectionBounds ==
    [][(/\ last'.op = "remove" /\ last'.res = "true"
        /\ FoundOnlyAtHeader(doc, last'.a))
          => doc' = SectionRemoved(doc, last'.a)]_vars

----------------------------------------------------------------------------
(* Address allocation *)

\* the host indexes of the range that do not occur in the document
FreeIPv4(lines) == {i \in MinHost..MaxHost : i \notin UsedIPv4(lines)}

FreeIPv6(lines) == {i \in MinHost..MaxHost : i \notin UsedIPv6(lines)}

\* C28: add_client gives the new client, for IPv4 and for IPv6
\* separately, the smallest host index of the range that does not occur
\* in the document, and reports that no address is available exactly when
\* every index of the range occurs for one of the two; an index that
\* remove_client has freed is given again.
C28_SmallestFreeIndex ==
    [][(/\ last'.op = "add"
        /\ ValidName(last'.a)
        /\ ~ClientExists(doc, last'.a) /\ ~WireguardClientExists(db, last'.a))
          => IF FreeIPv4(doc) = {} \/ FreeIPv6(doc) = {}
             THEN last'.res = "exhausted" /\ doc' = doc
             ELSE /\ last'.res = "ok"
                  /\ HasRecord(db', last'.a)
                  /\ db'[last'.a].ipv4 = MinOf(FreeIPv4(doc))
                  /\ db'[last'.a].ipv6 = MinOf(FreeIPv6(doc))
                  /\ UsedIPv4(doc') = UsedIPv4(doc) \cup {MinOf(FreeIPv4(doc))}
                  /\ UsedIPv6(doc') = UsedIPv6(doc) \cup {MinOf(FreeIPv6(doc))}]_vars

\* the first index is given again after its client was removed, while the
\* second index is still in use by an older client
C28_Witness ==
    /\ last.op = "add" /\ last.res = "ok"
    /\ db[last.a].ipv4 = MinHost /\ db[last.a].ipv6 = MinHost
    /\ \E m \in DOMAIN db :
          /\ db[m].ipv4 = MinHost + 1
          /\ db[m].created_at < db[last.a].created_at

----------------------------------------------------------------------------
(* Reading calls (SpecReads)                                              *)
(*                                                                        *)
(* list_clients() and get_client_config(name) are called between the      *)
(* other calls, over installations in which the registry and the document *)
(* name different clients (InitReboot).  last keeps what was returned:    *)
(* b is the list or the file, and res of a list tells whether the call    *)
(* before it was a list too ("again") or not ("first").                   *)

\* list_clients() with rows inserted for the headers it finds
ListClientsCallSyncing ==
    /\ last.op # "seed"
    /\ db' = AddMissingClients(db, files, MissingClients(db, doc), now, <<>>, "none")
    /\ last' = Outcome("list", <<>>, ListClients(db, doc),
                       IF last.op = "list" THEN "again" ELSE "first")
    /\ UNCHANGED <<doc, files, nextKey, now, tasks>>

\* list_clients()
ListClientsCall ==
    /\ last.op # "seed"
    /\ last' = Outcome("list", <<>>, ListClients(db, doc),
                       IF last.op = "list" THEN "again" ELSE "first")
    /\ UNCHANGED <<doc, db, files, nextKey, now, tasks>>

\* get_client_config(name)
GetClientConfigCall(name) ==
    /\ last.op # "seed"
    /\ last' = Outcome("config", name, GetClientConfig(files, name), "ok")
    /\ UNCHANGED <<doc, db, files, nextKey, now, tasks>>

ReadNames == {nX, nT}

NextReads ==
    \/ /\ SyncExistingClients(<<>>, "none")
       /\ UNCHANGED tasks
    \/ /\ last.op # "seed"
       /\ \E name \in ReadNames : RemoveClient(name, "none")
       /\ UNCHANGED tasks
    \/ /\ last.op # "seed"
       /\ \E old_name \in ReadNames, new_name \in ReadNames :
             RenameClient(old_name, new_name, "none")
       /\ UNCHANGED tasks
    \/ ListClientsCall
    \/ \E name \in ReadNames : GetClientConfigCall(name)

SpecReads == InitReboot /\ [][NextReads]_vars

\* the elements of a sequence
Range(seq) == {seq[i] : i \in DOMAIN seq}

\* C29: list_clients() returns exactly the names of the registry rows
\* together with the names of the section headers of the document, each
\* name once, in ascending order.
C29_ListIsSortedUnion ==
    last.op = "list" =>
       /\ Range(last.b) = (DOMAIN db) \cup ConfigClients(doc)
       /\ \A i \in DOMAIN last.b : \A j \in DOMAIN last.b :
             i < j => LessName(last.b[i], last.b[j])

\* a list of three names of which one is only in the registry and one
\* only in the document
C29_Witness ==
    /\ last.op = "list" /\ Len(last.b) = 3
    /\ \E n \in Range(last.b) : HasRecord(db, n) /\ ~HasSection(doc, n)
    /\ \E n \in Range(last.b) : ~HasRecord(db, n) /\ HasSection(doc, n)

\* C30: list_clients() and get_client_config(name) leave the document,
\* the registry and the client files as they are, and a list_clients()
\* that follows a list_clients() returns the same sequence.
C30_ReadsChangeNothing ==
    [][last'.op \in {"list", "config"} =>
          /\ doc' = doc /\ db' = db /\ files' = files
          /\ (last'.op = "list" /\ last'.res = "again") =>
                (last.op = "list" /\ last'.b = last.b)]_vars

\* a second list_clients() in a row, over a document with a name that
\* has no row
C30_Witness ==
    /\ last.op = "list" /\ last.res = "again"
    /\ ConfigClients(doc) \ DOMAIN db # {}
    /\ Len(last.b) > 1

----------------------------------------------------------------------------
(* Order of the steps of add_client *)

\* the failures that add_client meets before _update_server_config has
\* been entered: a key invocation, the write of the client file
BeforeSection == KeyFaults \cup {"chmod"}

\* C31: add_client changes the config document only when both addresses
\* are allocated, the key triple is generated and the client file was
\* written, and inserts the registry record only when the section has been
\* written; a failure that comes before the section is written leaves the
\* document and the registry unchanged.
C31_AddWritesInOrder ==
    [][last'.op = "add" =>
          /\ doc' # doc =>
                /\ nextKey' = nextKey + 2
                /\ \E i \in DOMAIN doc' :
                      doc'[i] = <<"ips", GetAvailableIPv4(doc), GetAvailableIPv6(doc)>>
                /\ \E i \in DOMAIN doc' :
                      doc'[i] = <<"pub", PubOf(GenPrivate(nextKey + 1))>>
                /\ \E i \in DOMAIN doc' :
                      doc'[i] = <<"psk", GenPreshared(nextKey + 2)>>
                /\ \/ GetClientConfig(files', last'.a)
                         = ClientFile(NewClient(last'.a), "0600")
                   \/ last'.res = "error"
          /\ db' # db =>
                /\ doc' # doc
                /\ \E i \in DOMAIN doc' :
                      doc'[i] = <<"pub", db'[last'.a].public_key>>
          /\ \A by \in Callers : \A f \in BeforeSection :
                AddClient(last'.a, by, f) => (doc' = doc /\ db' = db)]_vars

\* the live sync has aborted an add_client: the section is written, the
\* record is not
C31_Witness ==
    /\ last.op = "add" /\ last.res = "error"
    /\ HasSection(doc, last.a)
    /\ SectionPublicKey(doc, last.a) # NoKey
    /\ ~HasRecord(db, last.a)

----------------------------------------------------------------------------
(* The registry over every call (SpecRegistry)                            *)
(*                                                                        *)
(* Clients are added, removed and renamed, a rename may find wg-quick     *)
(* denied, and between two calls the process may end and be started       *)
(* again, so that the constructor reconciles the documents the calls      *)
(* have left, those with a name in more than one header included.         *)

RegistryNames == {nX, nT}

NextRegistry ==
    \/ /\ SyncExistingClients(<<>>, "none")
       /\ UNCHANGED tasks
    \/ /\ Restart
       /\ UNCHANGED tasks
    \/ /\ last.op # "seed"
       /\ \E name \in RegistryNames, by \in Callers : AddClient(name, by, "none")
       /\ UNCHANGED tasks
    \/ /\ last.op # "seed"
       /\ \E name \in RegistryNames : RemoveClient(name, "none")
       /\ UNCHANGED tasks
    \/ /\ last.op # "seed"
       /\ \E old_name \in RegistryNames, new_name \in RegistryNames,
             fault \in RestartFaults :
              RenameClient(old_name, new_name, fault)
       /\ UNCHANGED tasks

SpecRegistry == InitRestart /\ [][NextRegistry]_vars

\* C32: no two rows of the registry carry the same name, whatever calls
\* were made and whatever document the constructor has reconciled, a
\* document with the same name in more than one header included.
C32_NamesAreUnique == \A name \in DOMAIN db : db[name].ids = 1

\* the constructor has met a name twice in the headers of the document
\* and has backfilled its row
C32_Witness ==
    /\ last.op = "construct"
    /\ \E name \in DOMAIN db :
          /\ HeaderCount(doc, name) > 1
          /\ db[name].created_by = 0

\* the client files a step has created or rewritten
Written == {p \in DOMAIN files' : p \notin DOMAIN files \/ files'[p] # files[p]}

\* C33: every client file that add_client or rename_client has written and
\* that is on disk when the call has ended has the permissions 0600, also
\* when os.chmod itself has failed.
C33_FilesAreOwnerOnly ==
    [][last'.op \in {"add", "rename"} =>
          \A p \in Written : files'[p].mode = "0600"]_vars

\* name has a registry row, a section headed exactly name and a client file
Present(table, lines, fs, name) ==
    /\ HasRecord(table, name)
    /\ HasSection(lines, name)
    /\ GetClientConfig(fs, name) # NoFile

\* C34: a rename_client(old, new) that ends with an error or with the
\* result False, entered with old in the registry, the document and the
\* client files and with new in none of them, leaves the row, the section
\* and the file of old as they were and leaves new in none of the three.
C34_FailedRenameKeepsOld ==
    [][(/\ last'.op = "rename" /\ last'.res # "ok"
        /\ last'.a # last'.b
        /\ Present(db, doc, files, last'.a)
        /\ Absent(db, doc, files, last'.b))
       =>
          /\ Present(db', doc', files', last'.a)
          /\ db'[last'.a] = db[last'.a]
          /\ SectionOf(doc', last'.a) = SectionOf(doc, last'.a)
          /\ GetClientConfig(files', last'.a) = GetClientConfig(files, last'.a)
          /\ Absent(db', doc', files', last'.b)]_vars

\* C35: add_client(name) with a name of the pattern is rejected as a
\* conflict only when name has a registry row or a section headed exactly
\* name; a name that is a proper prefix of the name of a client is not.
C35_ConflictOnlyForTheName ==
    [][(/\ last'.op = "add" /\ last'.res = "conflict"
        /\ ~OutsidePattern(last'.a))
          => (HasRecord(db, last'.a) \/ HasSection(doc, last'.a))]_vars

----------------------------------------------------------------------------
(* An add that is taken back (SpecUndo)                                   *)
(*                                                                        *)
(* The handler of task 1 keeps what it has seen when it entered its last  *)
(* successful add_client: the name in a, the document, the registry and   *)
(* the client files in b, the addresses the allocator gave in ipv4 and    *)
(* ipv6, and pc = "added".  A successful remove_client of that name as    *)
(* the very next call makes it "removed"; every other call forgets it.    *)

Noted(name) ==
    [pc |-> "added", op |-> "add", a |-> name, b |-> <<doc, db, files>>,
     ipv4 |-> GetAvailableIPv4(doc), ipv6 |-> GetAvailableIPv6(doc)]

AddClientNoted(name, created_by, fault) ==
    /\ AddClient(name, created_by, fault)
    /\ tasks' = [tasks EXCEPT ![1] = IF last'.res = "ok" THEN Noted(name)
                                     ELSE IdleTask]

RemoveClientNoted(name, fault) ==
    /\ RemoveClient(name, fault)
    /\ tasks' = [tasks EXCEPT ![1] =
                    IF tasks[1].pc = "added" /\ tasks[1].a = name
                       /\ last'.res = "true"
                    THEN [tasks[1] EXCEPT !.pc = "removed"]
                    ELSE IdleTask]

RenameClientNoted(old_name, new_name, fault) ==
    /\ RenameClient(old_name, new_name, fault)
    /\ tasks' = IdleTasks

UndoNames == {nT, nTB, nTLF}

\* the registry may refuse the DELETE of remove_client
UndoFaults == {"none", "dbdelete"}

NextUndo ==
    \/ \E name \in UndoNames, by \in Callers :
          AddClientNoted(name, by, "none")
    \/ \E name \in UndoNames, fault \in UndoFaults :
          RemoveClientNoted(name, fault)
    \/ \E old_name \in UndoNames, new_name \in UndoNames :
          RenameClientNoted(old_name, new_name, "none")

SpecUndo == Init /\ [][NextUndo]_vars

\* C36: after a successful add_client(n) and, as the next call, a
\* successful remove_client(n), the names of the registry, the sections of
\* the document by name and the names of the client files are what they
\* were before the add, and the allocator gives the addresses n had.
C36_AddThenRemoveRestores ==
    tasks[1].pc = "removed" =>
       /\ DOMAIN db = DOMAIN tasks[1].b[2]
       /\ ConfigClients(doc) = ConfigClients(tasks[1].b[1])
       /\ \A m \in ConfigClients(doc) :
             SectionOf(doc, m) = SectionOf(tasks[1].b[1], m)
       /\ DOMAIN files = DOMAIN tasks[1].b[3]
       /\ GetAvailableIPv4(doc) = tasks[1].ipv4
       /\ GetAvailableIPv6(doc) = tasks[1].ipv6

\* C37: rename_client(n, n) leaves the document, the registry and the
\* client files as they are, whether n has a row, a section, a file, or
\* any of them.
C37_RenameToItselfChangesNothing ==
    [][(last'.op = "rename" /\ last'.a = last'.b) => UNCHANGED stores]_vars

\* rename_client(n, n) has returned for a name that has a section and a
\* client file and no row
C37_Witness ==
    /\ last.op = "rename" /\ last.a = last.b /\ last.res = "same"
    /\ HasSection(doc, last.a) /\ ~HasRecord(db, last.a)
    /\ GetClientConfig(files, last.a) # NoFile

====
